---- MODULE Spec2Model ----
(***************************************************************************)
(* URL shortener (apps/url-shorty-express-part-1): the write path          *)
(* POST /api/url (validate middleware, urlShorteningHandler and its retry  *)
(* loop), the read path GET /:shortId (urlRetrievalHandler), the global    *)
(* errorHandler, and the `urls` table they share.                          *)
(*                                                                         *)
(* A handler runs synchronously up to its next `await`; each such run is   *)
(* one action.  The store call a handler awaits is executed atomically by  *)
(* the store at the moment the awaiting action fires.                      *)
(***************************************************************************)
EXTENDS Integers, Sequences, FiniteSets, TLC

(***************************************************************************)
(* Bounds of the model.                                                    *)
(***************************************************************************)
NumPosts == 2      \* concurrent POST /api/url requests
NumGets == 1       \* concurrent GET /:shortId requests
NumDraws == 2      \* distinct values Math.random() takes in the model
RandDenom == 1000  \* Math.random() is a fraction d / RandDenom, 0 <= d < RandDenom
MaxGenLen == 8     \* greatest length generateShortId is called with on its own
MaxPkeyAnswers == 1  \* a primary-key violation is among a request's first answers
MaxLegacyFaults == 2 \* store failures one request of the earlier revision meets
NumLegacyPosts == 1  \* POST /api/url requests to the earlier revision
MaxRedraws == 1      \* further calls of generateShortId one request of the prototype makes

Posts == 1..NumPosts
Gets == 1..NumGets

(***************************************************************************)
(* Program constants.                                                      *)
(***************************************************************************)
maxRetries == 10
CodeLen == 8
MaxUrlLen == 2048
DefaultPort == 3000
ListenPort == 3000
LegacyMaxRetries == 10
LegacyPort == 3000
MinShortCodeLen == 8
InMemoryPort == 3000

VARIABLES
  urls,   \* the rows of the `urls` table
  env,    \* process.env.PORT ("" when unset)
  post,   \* post[r]: the state of POST /api/url request r
  get,    \* get[g]: the state of GET /:shortId request g
  gen     \* a call of generateShortId made on its own

vars == <<urls, env, post, get, gen>>

(***************************************************************************)
(* Strings.  A request string is  scheme [":"] ["//"] text "a"^fill ; only *)
(* its length and what the URL parser looks at are kept.                   *)
(***************************************************************************)
Str(scheme, slashes, text, fill) ==
  [scheme |-> scheme, slashes |-> slashes, text |-> text, fill |-> fill]

NoStr == Str("", FALSE, "", 0)

StrLen(s) ==
  Len(s.scheme) + (IF s.scheme = "" THEN 0 ELSE 1)
    + (IF s.slashes THEN 2 ELSE 0) + Len(s.text) + s.fill

\* new URL(s) of zod's url() check: a scheme is required, and the special
\* schemes require a non-empty host.
SpecialSchemes == {"http", "https", "ftp", "ws", "wss"}

URLParses(s) ==
  /\ s.scheme # ""
  /\ (s.scheme \in SpecialSchemes => Len(s.text) + s.fill > 0)

(***************************************************************************)
(* Errors (lib/errors) and responses.                                      *)
(***************************************************************************)
NoError == [cls |-> "none", message |-> "", statusCode |-> 0, code |-> ""]

ApiError(message, statusCode) ==
  [cls |-> "ApiError", message |-> message, statusCode |-> statusCode, code |-> ""]

BadRequestError(message) ==
  [cls |-> "BadRequestError", message |-> message, statusCode |-> 400, code |-> ""]

NotFoundError(message) ==
  [cls |-> "NotFoundError", message |-> message, statusCode |-> 404, code |-> ""]

\* The error object of a failed supabase call; it is no ApiError.
PostgrestError(code) ==
  [cls |-> "PostgrestError", message |-> "", statusCode |-> 0, code |-> code]

InstanceOfApiError(err) ==
  err.cls \in {"ApiError", "BadRequestError", "NotFoundError"}

NoResponse ==
  [status |-> 0, kind |-> "none", error |-> "", shortUrl |-> <<>>, location |-> NoStr,
   appStatus |-> ""]

\* res.status(s).json({ error: message })
JsonError(s, message) ==
  [status |-> s, kind |-> "error", error |-> message, shortUrl |-> <<>>,
   location |-> NoStr, appStatus |-> ""]

\* res.status(s).json({ shortUrl })
JsonShortUrl(s, shortUrl) ==
  [status |-> s, kind |-> "shortUrl", error |-> "", shortUrl |-> shortUrl,
   location |-> NoStr, appStatus |-> ""]

\* res.redirect(s, url)
Redirect(s, url) ==
  [status |-> s, kind |-> "redirect", error |-> "", shortUrl |-> <<>>,
   location |-> url, appStatus |-> ""]

\* res.json({ status }): express answers 200
JsonStatus(appStatus) ==
  [status |-> 200, kind |-> "status", error |-> "", shortUrl |-> <<>>,
   location |-> NoStr, appStatus |-> appStatus]

\* Mutant: every error is answered from its own statusCode and message.
errorHandlerAny(err) == JsonError(err.statusCode, err.message)

\* Mutant: the instanceof test never succeeds.
errorHandlerGeneric(err) == JsonError(500, "Internal Server Error")

errorHandler(err) ==
  IF InstanceOfApiError(err)
    THEN JsonError(err.statusCode, err.message)
    ELSE JsonError(500, "Internal Server Error")

(***************************************************************************)
(* Request bodies of POST /api/url.                                        *)
(***************************************************************************)
Body(hasUrl, isString, url) == [hasUrl |-> hasUrl, isString |-> isString, url |-> url]

NoBody == Body(FALSE, FALSE, NoStr)

UrlExample == Str("https", TRUE, "www.example.com", 0)     \* https://www.example.com
UrlNotAUrl == Str("", FALSE, "not-a-valid-url", 0)         \* not-a-valid-url
UrlTooLong == Str("http", TRUE, "", MaxUrlLen + 1)         \* http:// and 2049 a
UrlAtLimit == Str("http", TRUE, "", MaxUrlLen - 7)         \* http:// and 2041 a
UrlOverLimit == Str("http", TRUE, "", MaxUrlLen - 6)       \* http:// and 2042 a
UrlFtp == Str("ftp", TRUE, "files.example.com", 0)         \* ftp://files.example.com
UrlMailto == Str("mailto", FALSE, "a@example.com", 0)      \* mailto:a@example.com
UrlLongJunk == Str("", FALSE, "", MaxUrlLen + 1)           \* 2049 a, no scheme

Bodies ==
  {Body(FALSE, FALSE, NoStr), Body(TRUE, FALSE, NoStr)}
    \cup {Body(TRUE, TRUE, u) :
            u \in {UrlExample, UrlNotAUrl, UrlTooLong, UrlAtLimit, UrlOverLimit,
                   UrlFtp, UrlMailto, UrlLongJunk}}

(***************************************************************************)
(* ipc/payloads.ts and cross-shell/middleware/validate.ts                  *)
(***************************************************************************)
\* schema.parse: the messages of the issues zod raises, in order.  A string
\* runs every check (url, then max); a missing or non-string url stops at
\* the type check.
\* Mutant: max(2048) taken as "fewer than 2048 characters".
shortUrlSchemaStrict(body) ==
  IF ~body.hasUrl THEN <<"Required">>
  ELSE IF ~body.isString THEN <<"Expected string, received number">>
  ELSE (IF URLParses(body.url) THEN <<>> ELSE <<"Wrong url format">>)
       \o (IF StrLen(body.url) < MaxUrlLen THEN <<>>
           ELSE <<"String must contain at most 2048 character(s)">>)

shortUrlSchema(body) ==
  IF ~body.hasUrl THEN <<"Required">>
  ELSE IF ~body.isString THEN <<"Expected string, received number">>
  ELSE (IF URLParses(body.url) THEN <<>> ELSE <<"Wrong url format">>)
       \o (IF StrLen(body.url) <= MaxUrlLen THEN <<>>
           ELSE <<"String must contain at most 2048 character(s)">>)

\* messages.join(", ")
RECURSIVE Join(_)
Join(messages) ==
  IF messages = <<>> THEN ""
  ELSE IF Len(messages) = 1 THEN messages[1]
  ELSE messages[1] \o ", " \o Join(Tail(messages))

\* Mutant: the catch block swallows the parse error and next() runs.
validateLenient(body) == NoError

\* NoError stands for next(); otherwise the BadRequestError thrown.
validate(body) ==
  LET errors == shortUrlSchema(body)
  IN IF errors = <<>> THEN NoError ELSE BadRequestError(Join(errors))

(***************************************************************************)
(* shells/url-shortening/utils.ts                                          *)
(***************************************************************************)
chars ==
  << "a", "b", "c", "d", "e", "f", "g", "h", "i", "j", "k", "l", "m",
     "n", "o", "p", "q", "r", "s", "t", "u", "v", "w", "x", "y", "z",
     "0", "1", "2", "3", "4", "5", "6", "7", "8", "9" >>

\* Math.floor(Math.random() * n), Math.random() being d / RandDenom
\* Mutant: Math.ceil in place of Math.floor.
RandomIndexCeil(d, n) == (d * n + RandDenom - 1) \div RandDenom

RandomIndex(d, n) == (d * n) \div RandDenom

\* chars.charAt(i): the empty string outside the string
charAt(s, i) == IF i + 1 \in 1..Len(s) THEN <<s[i + 1]>> ELSE <<>>

\* rnd[i] is the draw of iteration i (1-based).  A short code is the
\* sequence of its characters.
RECURSIVE generateLoop(_, _, _, _)
generateLoop(i, length, rnd, result) ==
  IF i < length
    THEN generateLoop(i + 1, length, rnd,
                      result \o charAt(chars, RandomIndex(rnd[i + 1], Len(chars))))
    ELSE result

generateShortId(length, rnd) == generateLoop(0, length, rnd, <<>>)

Draws == {(k * (RandDenom - 1)) \div (NumDraws - 1) : k \in 0..(NumDraws - 1)}

\* The runs of Math.random() the model draws from: one value repeated.
Streams == {[i \in 1..CodeLen |-> d] : d \in Draws}

Codes == {generateShortId(CodeLen, rnd) : rnd \in Streams}

\* A call of generateShortId on its own: the argument, the draws of its
\* iterations, and what it returned.
IdleGen == [pc |-> "idle", length |-> 0, rnd |-> <<>>, result |-> <<>>]

GenCalls ==
  UNION {{[pc |-> "called", length |-> L, rnd |-> rnd, result |-> <<>>] :
            rnd \in [1..L -> Draws]} : L \in 0..MaxGenLen}

(***************************************************************************)
(* The `urls` table (documentation/url-shortener.md, Database Schema) and  *)
(* the two supabase calls made on it.                                      *)
(***************************************************************************)
\* long_url: 1-2048 chars, must start with http:// or https://
CheckLongUrl(u) ==
  /\ StrLen(u) >= 1
  /\ StrLen(u) <= MaxUrlLen
  /\ u.scheme \in {"http", "https"}
  /\ u.slashes

\* short_code: min 8 chars, lowercase letters and numbers only
CheckShortCode(c) ==
  /\ Len(c) >= MinShortCodeLen
  /\ \A i \in 1..Len(c) : \E j \in 1..Len(chars) : c[i] = chars[j]

\* unique_short_code
UniqueShortCode(table, c) == \A row \in table : row.short_code # c

\* Mutant: an insert the unique constraint does not guard.
insertUnguarded(table, values, fault) ==
  IF fault
    THEN [error |-> PostgrestError(""), table |-> table]
  ELSE IF ~(CheckLongUrl(values.long_url) /\ CheckShortCode(values.short_code))
    THEN [error |-> PostgrestError("23514"), table |-> table]
  ELSE [error |-> NoError,
        table |-> table \cup {[id |-> Cardinality(table) + 1,
                               long_url |-> values.long_url,
                               short_code |-> values.short_code]}]

\* Mutant: an upsert; a row holding the code takes the new long_url.
insertUpsert(table, values, fault) ==
  IF fault
    THEN [error |-> PostgrestError(""), table |-> table]
  ELSE IF ~(CheckLongUrl(values.long_url) /\ CheckShortCode(values.short_code))
    THEN [error |-> PostgrestError("23514"), table |-> table]
  ELSE IF ~UniqueShortCode(table, values.short_code)
    THEN [error |-> NoError,
          table |-> {IF row.short_code = values.short_code
                       THEN [row EXCEPT !.long_url = values.long_url]
                       ELSE row : row \in table}]
  ELSE [error |-> NoError,
        table |-> table \cup {[id |-> Cardinality(table) + 1,
                               long_url |-> values.long_url,
                               short_code |-> values.short_code]}]

\* Mutant: a long_url already stored is answered with success, no row added.
insertDedup(table, values, fault) ==
  IF fault
    THEN [error |-> PostgrestError(""), table |-> table]
  ELSE IF ~(CheckLongUrl(values.long_url) /\ CheckShortCode(values.short_code))
    THEN [error |-> PostgrestError("23514"), table |-> table]
  ELSE IF \E row \in table : row.long_url = values.long_url
    THEN [error |-> NoError, table |-> table]
  ELSE IF ~UniqueShortCode(table, values.short_code)
    THEN [error |-> PostgrestError("23505"), table |-> table]
  ELSE [error |-> NoError,
        table |-> table \cup {[id |-> Cardinality(table) + 1,
                               long_url |-> values.long_url,
                               short_code |-> values.short_code]}]

\* supabase.from("urls").insert([values]): one atomic statement.  `fault`
\* is a failure of the call itself (no connection); the row is not written.
insert(table, values, fault) ==
  IF fault
    THEN [error |-> PostgrestError(""), table |-> table]
  ELSE IF ~(CheckLongUrl(values.long_url) /\ CheckShortCode(values.short_code))
    THEN [error |-> PostgrestError("23514"), table |-> table]
  ELSE IF ~UniqueShortCode(table, values.short_code)
    THEN [error |-> PostgrestError("23505"), table |-> table]
  ELSE [error |-> NoError,
        table |-> table \cup {[id |-> Cardinality(table) + 1,
                               long_url |-> values.long_url,
                               short_code |-> values.short_code]}]

NoData == [present |-> FALSE, long_url |-> NoStr]

\* toLowerCase() on the letters the model's segments are made of.
ToLowerCase(c) == [i \in 1..Len(c) |-> IF c[i] = "A" THEN "a" ELSE c[i]]

\* Mutant: the filter is ilike, a comparison that ignores letter case.
selectSingleIlike(table, shortId, fault) ==
  LET rows == {row \in table : ToLowerCase(row.short_code) = ToLowerCase(shortId)}
  IN IF fault
       THEN [data |-> NoData, error |-> PostgrestError("")]
     ELSE IF Cardinality(rows) # 1
       THEN [data |-> NoData, error |-> PostgrestError("PGRST116")]
     ELSE [data |-> [present |-> TRUE,
                     long_url |-> (CHOOSE row \in rows : TRUE).long_url],
           error |-> NoError]

\* supabase.from("urls").select("long_url").eq("short_code", shortId).single()
\* single() reports PGRST116 unless exactly one row matches.
selectSingle(table, shortId, fault) ==
  LET rows == {row \in table : row.short_code = shortId}
  IN IF fault
       THEN [data |-> NoData, error |-> PostgrestError("")]
     ELSE IF Cardinality(rows) # 1
       THEN [data |-> NoData, error |-> PostgrestError("PGRST116")]
     ELSE [data |-> [present |-> TRUE,
                     long_url |-> (CHOOSE row \in rows : TRUE).long_url],
           error |-> NoError]

(***************************************************************************)
(* shells/url-shortening/handler.ts                                        *)
(***************************************************************************)
EnvPorts == {"", "8080"}

\* const PORT = process.env.PORT || 3000, as the template literal prints it
PORT(e) == IF e = "" THEN ToString(DefaultPort) ELSE e

\* `http://localhost:${PORT}/${shortId}`: the pieces of the string, in order
shortUrlOf(e, shortId) == <<"http://localhost:", PORT(e), "/">> \o shortId

IdlePost ==
  [pc |-> "idle", body |-> NoBody, url |-> NoStr, retries |-> 0, shortId |-> <<>>,
   calls |-> <<>>, rowId |-> 0, rivals |-> {}, thrown |-> NoError, res |-> NoResponse]

\* A throw out of a middleware or handler: express hands it to errorHandler.
Throw(p, err) ==
  [p EXCEPT !.pc = "done", !.thrown = err, !.res = errorHandler(err)]

\* Mutant: the loop test is retries <= maxRetries.
LoopHeadInclusive(p, rnd) ==
  IF p.retries <= maxRetries
    THEN [p EXCEPT !.pc = "awaitInsert", !.shortId = generateShortId(CodeLen, rnd)]
    ELSE Throw(p, ApiError("An unexpected error occurred, please try again", 500))

\* Mutant: the loop is left without a throw; the handler returns and no
\* response is sent.
LoopHeadSilent(p, rnd) ==
  IF p.retries < maxRetries
    THEN [p EXCEPT !.pc = "awaitInsert", !.shortId = generateShortId(CodeLen, rnd)]
    ELSE [p EXCEPT !.pc = "done"]

\* The collisions counted so far by all the requests of the process.
RECURSIVE SharedRetries(_)
SharedRetries(S) ==
  IF S = {} THEN 0
  ELSE LET r == CHOOSE x \in S : TRUE IN post[r].retries + SharedRetries(S \ {r})

\* Mutant: retries is a variable of the module, counted up by every request
\* of the process.
LoopHeadShared(p, rnd) ==
  IF SharedRetries(Posts) + (IF p.retries = 0 THEN 0 ELSE 1) < maxRetries
    THEN [p EXCEPT !.pc = "awaitInsert", !.shortId = generateShortId(CodeLen, rnd)]
    ELSE Throw(p, ApiError("An unexpected error occurred, please try again", 500))

\* The head of the for loop: the test, a new candidate, the insert call
\* issued and awaited; after the loop, the exhaustion error.
LoopHead(p, rnd) ==
  IF p.retries < maxRetries
    THEN [p EXCEPT !.pc = "awaitInsert", !.shortId = generateShortId(CodeLen, rnd)]
    ELSE Throw(p, ApiError("An unexpected error occurred, please try again", 500))

\* The handler from its start to the first await.
urlShorteningHandler(p, rnd) ==
  LoopHead([p EXCEPT !.url = p.body.url, !.retries = 0], rnd)

\* Mutant: the 201 response is built from a newly generated id.
AfterInsertFresh(p, error, e, rnd) ==
  IF error = NoError
    THEN [p EXCEPT !.pc = "done",
                   !.res = JsonShortUrl(201, shortUrlOf(e, generateShortId(CodeLen, rnd)))]
  ELSE IF error.code = "23505"
    THEN LoopHead([p EXCEPT !.retries = @ + 1], rnd)
  ELSE Throw(p, error)

\* Mutant: every store error is retried and counted, none is thrown.
AfterInsertRetryAll(p, error, e, rnd) ==
  IF error = NoError
    THEN [p EXCEPT !.pc = "done", !.res = JsonShortUrl(201, shortUrlOf(e, p.shortId))]
  ELSE LoopHead([p EXCEPT !.retries = @ + 1], rnd)

\* Mutant: a successful insert does not return; the loop goes on.
AfterInsertContinue(p, error, e, rnd) ==
  IF error = NoError \/ error.code = "23505"
    THEN LoopHead([p EXCEPT !.retries = @ + 1], rnd)
    ELSE Throw(p, error)

\* Mutant: the 201 response is sent on a uniqueness violation as well.
AfterInsertEager(p, error, e, rnd) ==
  IF error = NoError \/ error.code = "23505"
    THEN [p EXCEPT !.pc = "done", !.res = JsonShortUrl(201, shortUrlOf(e, p.shortId))]
    ELSE Throw(p, error)

\* Mutant: the loop has no counter step; a collision goes back to the head
\* with retries as it was.
AfterInsertNoCount(p, error, e, rnd) ==
  IF error = NoError
    THEN [p EXCEPT !.pc = "done", !.res = JsonShortUrl(201, shortUrlOf(e, p.shortId))]
  ELSE IF error.code = "23505"
    THEN LoopHead(p, rnd)
  ELSE Throw(p, error)

\* Mutant: a uniqueness violation is thrown like any other store error.
AfterInsertThrowOnCollision(p, error, e, rnd) ==
  IF error = NoError
    THEN [p EXCEPT !.pc = "done", !.res = JsonShortUrl(201, shortUrlOf(e, p.shortId))]
  ELSE IF error.code = "23505"
    THEN Throw(p, ApiError("An unexpected error occurred, please try again", 500))
  ELSE Throw(p, error)

\* The handler from the insert's answer to the next await or to its end.
\* p.calls already holds this answer.
AfterInsert(p, error, e, rnd) ==
  IF error = NoError
    THEN [p EXCEPT !.pc = "done", !.res = JsonShortUrl(201, shortUrlOf(e, p.shortId))]
  ELSE IF error.code = "23505"
    THEN LoopHead([p EXCEPT !.retries = @ + 1], rnd)
  ELSE Throw(p, error)

(***************************************************************************)
(* shells/url-retrieval/handler.ts                                         *)
(***************************************************************************)
IdleGet ==
  [pc |-> "idle", shortId |-> <<>>, data |-> NoData, error |-> NoError,
   thrown |-> NoError, res |-> NoResponse, after |-> {}, matched |-> 0,
   lookups |-> 0, segment |-> <<>>]

\* Mutant: res.redirect without the 301 (express then answers 302).
urlRetrievalHandlerTemporary(g, data, error) ==
  LET g1 == [g EXCEPT !.data = data, !.error = error]
  IN IF error # NoError \/ ~data.present
       THEN Throw(g1, NotFoundError("Short URL not found"))
       ELSE [g1 EXCEPT !.pc = "done", !.res = Redirect(302, data.long_url)]

\* Mutant: the not-found test is !error && !data.
urlRetrievalHandlerLoose(g, data, error) ==
  LET g1 == [g EXCEPT !.data = data, !.error = error]
  IN IF error = NoError /\ ~data.present
       THEN Throw(g1, NotFoundError("Short URL not found"))
       ELSE [g1 EXCEPT !.pc = "done", !.res = Redirect(301, data.long_url)]

\* Mutant: a lookup that reported an error is issued once more.
urlRetrievalHandlerRetry(g, data, error) ==
  LET g1 == [g EXCEPT !.data = data, !.error = error]
  IN IF error # NoError /\ g.lookups < 2
       THEN [g1 EXCEPT !.pc = "awaitSelect"]
     ELSE IF error # NoError \/ ~data.present
       THEN Throw(g1, NotFoundError("Short URL not found"))
     ELSE [g1 EXCEPT !.pc = "done", !.res = Redirect(301, data.long_url)]

\* The handler from the select's answer to its end.
urlRetrievalHandler(g, data, error) ==
  LET g1 == [g EXCEPT !.data = data, !.error = error]
  IN IF error # NoError \/ ~data.present
       THEN Throw(g1, NotFoundError("Short URL not found"))
       ELSE [g1 EXCEPT !.pc = "done", !.res = Redirect(301, data.long_url)]

\* Path segments asked for: every code the generator can produce, and one
\* that differs from a code in letter case only.
Segments == Codes \cup {[i \in 1..CodeLen |-> "A"]}

(***************************************************************************)
(* The state machine.                                                      *)
(***************************************************************************)
Init ==
  /\ urls = {}
  /\ env \in EnvPorts
  /\ post = [r \in Posts |-> IdlePost]
  /\ get = [g \in Gets |-> IdleGet]
  /\ gen = IdleGen

\* POST /api/url arrives: validate(shortUrlSchema), then the handler up to
\* its first await.  Requests are numbered in order of arrival.
PostRequest(r) ==
  /\ post[r].pc = "idle"
  /\ \A q \in Posts : q < r => post[q].pc # "idle"
  /\ \E body \in Bodies, rnd \in Streams :
       LET p == [post[r] EXCEPT !.body = body]
           err == validate(body)
       IN post' = [post EXCEPT ![r] =
                     IF err # NoError THEN Throw(p, err)
                     ELSE urlShorteningHandler(p, rnd)]
  /\ UNCHANGED <<urls, env, get, gen>>

\* The inserts in flight for the same candidate as request r's: the request
\* and the number its insert has among the request's calls.
Rivals(r) ==
  {<<q, Len(post[q].calls) + 1>> :
     q \in {x \in Posts \ {r} : /\ post[x].pc = "awaitInsert"
                                 /\ post[x].shortId = post[r].shortId}}

\* The store executes the awaited insert and the handler resumes.
InsertReturns(r) ==
  /\ post[r].pc = "awaitInsert"
  /\ \E fault \in BOOLEAN, rnd \in Streams :
       LET p == post[r]
           out == insert(urls, [long_url |-> p.url, short_code |-> p.shortId], fault)
           p1 == [p EXCEPT !.calls = Append(@, out.error),
                           !.rowId = IF out.error = NoError
                                       THEN Cardinality(out.table) ELSE @,
                           !.rivals = IF out.error = NoError THEN Rivals(r) ELSE @]
       IN /\ urls' = out.table
          /\ post' = [post EXCEPT ![r] = AfterInsert(p1, out.error, env, rnd)]
  /\ UNCHANGED <<env, get, gen>>

\* 201 responses already sent: the requests and what they were answered.
Answered201 == {r \in Posts : post[r].res.status = 201}

\* GET /:shortId arrives: the handler up to its await.
GetRequest(g) ==
  /\ get[g].pc = "idle"
  /\ \A h \in Gets : h < g => get[h].pc # "idle"
  /\ \E shortId \in Segments :
       get' = [get EXCEPT ![g] = [@ EXCEPT !.pc = "awaitSelect",
                                           !.shortId = shortId,
                                           !.segment = shortId,
                                           !.after = Answered201]]
  /\ UNCHANGED <<urls, env, post, gen>>

\* The store executes the awaited select and the handler resumes.
SelectReturns(g) ==
  /\ get[g].pc = "awaitSelect"
  /\ \E fault \in BOOLEAN :
       LET out == selectSingle(urls, get[g].shortId, fault)
           g1 == [get[g] EXCEPT !.matched =
                    Cardinality({row \in urls : row.short_code = get[g].shortId}),
                                !.lookups = @ + 1]
       IN get' = [get EXCEPT ![g] = urlRetrievalHandler(g1, out.data, out.error)]
  /\ UNCHANGED <<urls, env, post, gen>>

Next ==
  \/ \E r \in Posts : PostRequest(r)
  \/ \E r \in Posts : InsertReturns(r)
  \/ \E g \in Gets : GetRequest(g)
  \/ \E g \in Gets : SelectReturns(g)

Spec == Init /\ [][Next]_vars

\* The steps of the shortening requests alone.
NextPosts ==
  \/ \E r \in Posts : PostRequest(r)
  \/ \E r \in Posts : InsertReturns(r)

\* The GET routes of index.ts in the order of their registration.  A path
\* is the sequence of the characters of its one segment.
HealthPath == <<"h", "e", "a", "l", "t", "h">>

\* Mutant: the /:shortId route is registered first.
RoutesParamFirst ==
  << [path |-> ":shortId", handler |-> "urlRetrievalHandler"],
     [path |-> "health", handler |-> "healthCheckHandler"] >>

Routes ==
  << [path |-> "health", handler |-> "healthCheckHandler"],
     [path |-> ":shortId", handler |-> "urlRetrievalHandler"] >>

\* A route matches a one-segment path if it is a parameter or names it.
Matches(route, segment) ==
  \/ route.path = ":shortId" /\ segment # <<>>
  \/ route.path = "health" /\ segment = HealthPath

\* express runs the handler of the first route that matches.
Dispatch(segment) ==
  LET i == CHOOSE k \in 1..Len(Routes) :
             /\ Matches(Routes[k], segment)
             /\ \A j \in 1..(k - 1) : ~Matches(Routes[j], segment)
  IN Routes[i].handler

healthCheckHandler(g) == [g EXCEPT !.pc = "done", !.res = JsonStatus("ok")]

\* GET /<segment> arrives and is routed: the health check answers at once,
\* the retrieval handler runs up to its await.
GetDispatch(g) ==
  /\ get[g].pc = "idle"
  /\ \A h \in Gets : h < g => get[h].pc # "idle"
  /\ \E segment \in Segments \cup {HealthPath} :
       LET g1 == [get[g] EXCEPT !.segment = segment, !.after = Answered201]
       IN get' = [get EXCEPT ![g] =
                    IF Dispatch(segment) = "healthCheckHandler"
                      THEN healthCheckHandler(g1)
                      ELSE [g1 EXCEPT !.pc = "awaitSelect", !.shortId = segment]]
  /\ UNCHANGED <<urls, env, post, gen>>

NextRoutes ==
  \/ \E r \in Posts : PostRequest(r)
  \/ \E r \in Posts : InsertReturns(r)
  \/ \E g \in Gets : GetDispatch(g)
  \/ \E g \in Gets : SelectReturns(g)

SpecRoutes == Init /\ [][NextRoutes]_vars

\* The store answers an insert with a uniqueness violation of the table's
\* primary key (the id sequence is behind the rows); no row is added and
\* the handler resumes as after any answer.
PkeyViolation ==
  [cls |-> "PostgrestError",
   message |-> "duplicate key value violates unique constraint \"urls_pkey\"",
   statusCode |-> 0, code |-> "23505"]

InsertReturnsPkey(r) ==
  /\ post[r].pc = "awaitInsert"
  /\ Len(post[r].calls) < MaxPkeyAnswers
  /\ \E rnd \in Streams :
       LET p1 == [post[r] EXCEPT !.calls = Append(@, PkeyViolation)]
       IN post' = [post EXCEPT ![r] = AfterInsert(p1, PkeyViolation, env, rnd)]
  /\ UNCHANGED <<urls, env, get, gen>>

NextPkey ==
  \/ NextPosts
  \/ \E r \in Posts : InsertReturnsPkey(r)

SpecPkey == Init /\ [][NextPkey]_vars

\* The service starts on a table that holds a row of an earlier run; only
\* shortening requests arrive.
InitStored ==
  /\ \E c \in Codes : urls = {[id |-> 1, long_url |-> UrlExample, short_code |-> c]}
  /\ env \in EnvPorts
  /\ post = [r \in Posts |-> IdlePost]
  /\ get = [g \in Gets |-> IdleGet]
  /\ gen = IdleGen

SpecStored == InitStored /\ [][NextPosts]_vars

(***************************************************************************)
(* The earlier single-file revision of the service (the POST /api/url      *)
(* handler with its while loop and try/catch).  It has the same store, the *)
(* same validation and the same error handler.                             *)
(***************************************************************************)
\* A throw out of the async handler.  The revision does not load
\* express-async-errors: whether express hands the rejected promise to the
\* error handler depends on the express version the build resolves.
LegacyThrow(p, err, forwarded) ==
  IF forwarded THEN Throw(p, err) ELSE [p EXCEPT !.pc = "done", !.thrown = err]

\* The head of the while loop; after the loop the handler returns.
LegacyLoopHead(p, rnd) ==
  IF p.retries < LegacyMaxRetries
    THEN [p EXCEPT !.pc = "awaitInsert", !.shortId = generateShortId(CodeLen, rnd)]
    ELSE [p EXCEPT !.pc = "done"]

\* Mutant: the error thrown inside the try block leaves the handler.
LegacyAfterInsertPropagates(p, error, rnd, forwarded) ==
  IF error = NoError
    THEN [p EXCEPT !.pc = "done",
                   !.res = JsonShortUrl(201, <<"http://localhost:", ToString(LegacyPort), "/">>
                                               \o p.shortId)]
  ELSE IF error.code = "23505"
    THEN LegacyLoopHead([p EXCEPT !.retries = @ + 1], rnd)
  ELSE LegacyThrow(p, error, forwarded)

\* From the insert's answer to the next await or to the handler's end: the
\* try block and its catch.
LegacyAfterInsert(p, error, rnd, forwarded) ==
  IF error = NoError
    THEN [p EXCEPT !.pc = "done",
                   !.res = JsonShortUrl(201, <<"http://localhost:", ToString(LegacyPort), "/">>
                                               \o p.shortId)]
  ELSE IF error.code = "23505"
    THEN LegacyLoopHead([p EXCEPT !.retries = @ + 1], rnd)
  ELSE IF p.retries >= LegacyMaxRetries - 1
    THEN LegacyThrow(p, ApiError("An unexpected error occurred, please try again", 500),
                     forwarded)
  ELSE LegacyLoopHead([p EXCEPT !.retries = @ + 1], rnd)

LegacyPostRequest(r) ==
  /\ post[r].pc = "idle"
  /\ \A q \in Posts : q < r => post[q].pc # "idle"
  /\ \E body \in Bodies, rnd \in Streams :
       LET p == [post[r] EXCEPT !.body = body]
           err == validate(body)
       IN post' = [post EXCEPT ![r] =
                     IF err # NoError THEN Throw(p, err)
                     ELSE LegacyLoopHead([p EXCEPT !.url = p.body.url, !.retries = 0], rnd)]
  /\ UNCHANGED <<urls, env, get, gen>>

\* The store failures among the answers a request has had.
Faults(p) == Cardinality({i \in 1..Len(p.calls) : p.calls[i] = PostgrestError("")})

LegacyInsertReturns(r) ==
  /\ post[r].pc = "awaitInsert"
  /\ \E fault \in {f \in BOOLEAN : f => Faults(post[r]) < MaxLegacyFaults},
        rnd \in Streams, forwarded \in BOOLEAN :
       LET p == post[r]
           out == insert(urls, [long_url |-> p.url, short_code |-> p.shortId], fault)
           p1 == [p EXCEPT !.calls = Append(@, out.error),
                           !.rowId = IF out.error = NoError
                                       THEN Cardinality(out.table) ELSE @]
       IN /\ urls' = out.table
          /\ post' = [post EXCEPT ![r] = LegacyAfterInsert(p1, out.error, rnd, forwarded)]
  /\ UNCHANGED <<env, get, gen>>

\* The earlier revision starts on a table that holds a row already.
NextLegacy ==
  \/ \E r \in 1..NumLegacyPosts : LegacyPostRequest(r)
  \/ \E r \in 1..NumLegacyPosts : LegacyInsertReturns(r)

SpecLegacy == InitStored /\ [][NextLegacy]_vars

\* The store answers every insert it is sent.  Only shortening requests
\* arrive: a lookup changes nothing a shortening request reads.
LiveSpec ==
  /\ Init
  /\ [][NextPosts]_vars
  /\ \A r \in Posts : WF_vars(InsertReturns(r))

\* generateShortId called with any length and any draws, beside the server.
InitFormat ==
  /\ urls = {}
  /\ env \in EnvPorts
  /\ post = [r \in Posts |-> IdlePost]
  /\ get = [g \in Gets |-> IdleGet]
  /\ gen \in {IdleGen} \cup GenCalls

GenReturn ==
  /\ gen.pc = "called"
  /\ gen' = [gen EXCEPT !.pc = "returned",
                        !.result = generateShortId(gen.length, gen.rnd)]
  /\ UNCHANGED <<urls, env, post, get>>

NextFormat ==
  \/ GenReturn
  \/ gen = IdleGen /\ Next

SpecFormat == InitFormat /\ [][NextFormat]_vars

(***************************************************************************)
(* The in-memory prototype of the service (unnamed/part_005).  urlDatabase *)
(* is a plain object and both handlers are synchronous, so a request is    *)
(* one step.  Under this specification `urls` holds the own properties of  *)
(* urlDatabase, one row per key.                                           *)
(***************************************************************************)
\* The values a property read yields, each with what String() makes of it.
Undefined == [type |-> "undefined", str |-> Str("", FALSE, "undefined", 0)]

StringValue(s) == [type |-> "string", str |-> s]

FunctionValue(name) ==
  [type |-> "function",
   str |-> Str("", FALSE, "function " \o name \o "() { [native code] }", 0)]

ObjectValue == [type |-> "object", str |-> Str("", FALSE, "[object Object]", 0)]

\* if (v): undefined and the empty string are falsy, the rest truthy
Truthy(v) ==
  CASE v.type = "undefined" -> FALSE
    [] v.type = "string" -> StrLen(v.str) > 0
    [] OTHER -> TRUE

\* Property names every object literal inherits from Object.prototype.
ConstructorName == << "c", "o", "n", "s", "t", "r", "u", "c", "t", "o", "r" >>

ToStringName == << "t", "o", "S", "t", "r", "i", "n", "g" >>

ProtoName == << "_", "_", "p", "r", "o", "t", "o", "_", "_" >>

\* A read of `key` on the prototype of the object literal {}.
ObjectPrototype(key) ==
  CASE key = ConstructorName -> FunctionValue("Object")
    [] key = ToStringName -> FunctionValue("toString")
    [] key = ProtoName -> ObjectValue
    [] OTHER -> Undefined

\* urlDatabase[key]: the own property, else what the prototype chain gives.
urlDatabaseGet(db, key) ==
  IF \E row \in db : row.key = key
    THEN StringValue((CHOOSE row \in db : row.key = key).value)
    ELSE ObjectPrototype(key)

\* urlDatabase[key] = value
urlDatabaseSet(db, key, value) ==
  {row \in db : row.key # key} \cup {[key |-> key, value |-> value]}

\* let shortId = generateShortId(8); while (urlDatabase[shortId]) shortId =
\* generateShortId(8).  rnds[i] is the run of draws of the i-th call; <<>>
\* when the loop has not ended within the calls the model makes.
RECURSIVE InMemoryLoop(_, _, _)
InMemoryLoop(db, rnds, i) ==
  LET shortId == generateShortId(CodeLen, rnds[i])
  IN IF ~Truthy(urlDatabaseGet(db, shortId)) THEN shortId
     ELSE IF i < Len(rnds) THEN InMemoryLoop(db, rnds, i + 1)
     ELSE <<>>

\* The prototype does not validate: url is absent, or any string at all.
InMemoryBodies ==
  {b \in Bodies : ~b.hasUrl \/ b.isString} \cup {Body(TRUE, TRUE, NoStr)}

\* Path segments asked for: the codes, a name nothing holds, and names the
\* object inherits.
InMemorySegments == Segments \cup {ConstructorName, ToStringName, ProtoName}

\* POST /api/url
InMemoryPostRequest(r) ==
  /\ post[r].pc = "idle"
  /\ \A q \in Posts : q < r => post[q].pc # "idle"
  /\ \E body \in InMemoryBodies, rnds \in [1..(MaxRedraws + 1) -> Streams] :
       LET url == IF body.hasUrl THEN StringValue(body.url) ELSE Undefined
           shortId == InMemoryLoop(urls, rnds, 1)
           p == [post[r] EXCEPT !.pc = "done", !.body = body]
       IN IF ~Truthy(url)
            THEN /\ post' = [post EXCEPT ![r] =
                               [p EXCEPT !.res = JsonError(400, "URL is required")]]
                 /\ urls' = urls
            ELSE /\ shortId # <<>>
                 /\ urls' = urlDatabaseSet(urls, shortId, body.url)
                 /\ post' = [post EXCEPT ![r] =
                               [p EXCEPT !.url = body.url,
                                         !.shortId = shortId,
                                         !.res = JsonShortUrl(201,
                                                   <<"http://localhost:",
                                                     ToString(InMemoryPort), "/">>
                                                     \o shortId)]]
  /\ UNCHANGED <<env, get, gen>>

\* GET /:shortId.  `matched` keeps how many own properties had the key when
\* it was read.
InMemoryGetRequest(g) ==
  /\ get[g].pc = "idle"
  /\ \A h \in Gets : h < g => get[h].pc # "idle"
  /\ \E shortId \in InMemorySegments :
       LET longUrl == urlDatabaseGet(urls, shortId)
           g1 == [get[g] EXCEPT !.pc = "done",
                                !.shortId = shortId,
                                !.segment = shortId,
                                !.matched = Cardinality({row \in urls : row.key = shortId}),
                                !.lookups = @ + 1]
       IN get' = [get EXCEPT ![g] =
                    IF Truthy(longUrl)
                      THEN [g1 EXCEPT !.res = Redirect(301, longUrl.str)]
                      ELSE [g1 EXCEPT !.res = JsonError(404, "Short URL not found")]]
  /\ UNCHANGED <<urls, env, post, gen>>

NextInMemory ==
  \/ \E r \in Posts : InMemoryPostRequest(r)
  \/ \E g \in Gets : InMemoryGetRequest(g)

SpecInMemory == Init /\ [][NextInMemory]_vars

(***************************************************************************)
(* Vocabulary of the properties.                                           *)
(***************************************************************************)
ExhaustedBody == "An unexpected error occurred, please try again"

IsCollision(error) == error # NoError /\ error.code = "23505"

\* A store error other than a uniqueness violation.
IsOtherStoreError(error) == error # NoError /\ error.code # "23505"

\* The body violates the validation contract: url missing, not a string,
\* not URL syntax, or longer than 2048 characters.
ViolatesContract(body) ==
  \/ ~body.hasUrl
  \/ ~body.isString
  \/ ~URLParses(body.url)
  \/ StrLen(body.url) > MaxUrlLen

\* The Allocator was entered for the request: a candidate was generated or
\* an insert was called.
ReachedAllocator(p) == p.shortId # <<>> \/ p.calls # <<>> \/ p.rowId # 0

\* The stored row a request's successful insert created.
RowOf(r) == CHOOSE row \in urls : row.id = post[r].rowId

\* The short code a 201 response carries: what follows "<base>/".
CodeIn(res) == SubSeq(res.shortUrl, 4, Len(res.shortUrl))

(***************************************************************************)
(* C1  Uniqueness: in every reachable state no two distinct rows of the    *)
(* table have the same short_code, whatever the interleaving of the POST   *)
(* requests.                                                               *)
(***************************************************************************)
C1_Uniqueness ==
  \A a, b \in urls : a # b => a.short_code # b.short_code

\* Two rows are stored and one of the requests had collided on the way.
C1_Witness ==
  /\ Cardinality(urls) = 2
  /\ \E r \in Posts : \E i \in 1..Len(post[r].calls) : IsCollision(post[r].calls[i])

(***************************************************************************)
(* C2  Collision retry: if the first k < 10 inserts of a request were      *)
(* answered with a uniqueness violation and insert k+1 succeeded, the      *)
(* request is answered 201, the code in the answer is the candidate that   *)
(* insert k+1 stored, and exactly k+1 inserts were called.                 *)
(***************************************************************************)
CollidedThenStored(r, k) ==
  /\ Len(post[r].calls) >= k + 1
  /\ \A i \in 1..k : IsCollision(post[r].calls[i])
  /\ post[r].calls[k + 1] = NoError

C2_CollisionRetry ==
  \A r \in Posts : \A k \in 0..(maxRetries - 1) :
    CollidedThenStored(r, k) =>
      /\ post[r].pc = "done"
      /\ post[r].res.status = 201
      /\ post[r].res.kind = "shortUrl"
      /\ Len(post[r].calls) = k + 1
      /\ \E row \in urls : row.id = post[r].rowId
      /\ CodeIn(post[r].res) = RowOf(r).short_code
      /\ RowOf(r).long_url = post[r].url

\* Nine collisions, then the tenth insert succeeds.
C2_Witness ==
  \E r \in Posts :
    /\ CollidedThenStored(r, maxRetries - 1)
    /\ post[r].res.status = 201

(***************************************************************************)
(* C3  Exhaustion: a request whose every insert is answered with a         *)
(* uniqueness violation calls insert exactly 10 times, then throws the     *)
(* exhaustion ApiError and is answered 500 with the fixed message.         *)
(***************************************************************************)
AllCollided(r) ==
  /\ post[r].calls # <<>>
  /\ \A i \in 1..Len(post[r].calls) : IsCollision(post[r].calls[i])

C3_Exhaustion ==
  \A r \in Posts :
    AllCollided(r) =>
      /\ Len(post[r].calls) <= maxRetries
      /\ Len(post[r].calls) < maxRetries =>
           post[r].pc = "awaitInsert" /\ post[r].res = NoResponse
      /\ Len(post[r].calls) = maxRetries =>
           /\ post[r].pc = "done"
           /\ post[r].thrown = ApiError(ExhaustedBody, 500)
           /\ post[r].res = JsonError(500, ExhaustedBody)

C3_Witness ==
  \E r \in Posts :
    /\ AllCollided(r)
    /\ Len(post[r].calls) = maxRetries
    /\ post[r].res.status = 500

(***************************************************************************)
(* C4  Non-collision store error: an insert answered with a store error    *)
(* other than a uniqueness violation is the request's last insert, at any  *)
(* attempt number, and the error thrown is that error object itself.       *)
(***************************************************************************)
C4_StoreErrorAborts ==
  \A r \in Posts : \A i \in 1..Len(post[r].calls) :
    IsOtherStoreError(post[r].calls[i]) =>
      /\ i = Len(post[r].calls)
      /\ post[r].pc = "done"
      /\ post[r].thrown = post[r].calls[i]
      /\ post[r].thrown # ApiError(ExhaustedBody, 500)
      /\ post[r].rowId = 0

\* The store error comes after collisions, at the last attempt of the budget.
C4_Witness ==
  \E r \in Posts :
    /\ Len(post[r].calls) = maxRetries
    /\ IsOtherStoreError(post[r].calls[maxRetries])
    /\ post[r].pc = "done"

(***************************************************************************)
(* C5  (as stated) a non-collision store error on insert is answered 500   *)
(* with the body of retry exhaustion.                                      *)
(***************************************************************************)
C5_AsStated ==
  \A r \in Posts :
    (post[r].calls # <<>> /\ IsOtherStoreError(post[r].calls[Len(post[r].calls)])) =>
      post[r].res = JsonError(500, ExhaustedBody)

(***************************************************************************)
(* C5  (amended) a non-collision store error on insert is answered 500     *)
(* with the body {"error":"Internal Server Error"}: the status of retry    *)
(* exhaustion, not its body.                                               *)
(***************************************************************************)
C5_StoreErrorResponse ==
  \A r \in Posts :
    (post[r].calls # <<>> /\ IsOtherStoreError(post[r].calls[Len(post[r].calls)])) =>
      /\ post[r].res = JsonError(500, "Internal Server Error")
      /\ post[r].res.status = JsonError(500, ExhaustedBody).status
      /\ post[r].res # JsonError(500, ExhaustedBody)

\* A request that had collided first ended on a store error and was answered.
C5_Witness ==
  \E r \in Posts :
    /\ Len(post[r].calls) > 1
    /\ IsOtherStoreError(post[r].calls[Len(post[r].calls)])
    /\ post[r].res.status = 500
    /\ post[r].res.kind = "error"

(***************************************************************************)
(* C6  Validation gate: a request whose body violates the validation       *)
(* contract is ended by the middleware and never enters the Allocator: no  *)
(* candidate, no insert call, no row of the table comes from it.  Every    *)
(* request that entered the Allocator has a body the contract accepts.     *)
(***************************************************************************)
C6_ValidationGate ==
  /\ \A r \in Posts :
       (post[r].pc # "idle" /\ ViolatesContract(post[r].body)) =>
         /\ post[r].pc = "done"
         /\ ~ReachedAllocator(post[r])
         /\ post[r].res.status # 201
  /\ \A row \in urls : \E r \in Posts :
       /\ post[r].rowId = row.id
       /\ ~ViolatesContract(post[r].body)

\* A rejected request beside one whose insert stored a row.
C6_Witness ==
  \E r, q \in Posts :
    /\ ViolatesContract(post[r].body)
    /\ post[r].pc = "done"
    /\ post[q].rowId # 0
    /\ urls # {}

(***************************************************************************)
(* C7  Validation rejection message: every request whose body violates the *)
(* validation contract (url missing, not a string, not URL syntax, longer  *)
(* than 2048 characters) is answered 400 {"error":"Wrong url format"}.     *)
(***************************************************************************)
C7_RejectionMessage ==
  \A r \in Posts :
    (post[r].pc = "done" /\ ViolatesContract(post[r].body)) =>
      post[r].res = JsonError(400, "Wrong url format")

(***************************************************************************)
(* C8  Scheme restriction: a url that parses but whose scheme is neither   *)
(* http nor https is answered 400 "Wrong url format" and never enters the  *)
(* Allocator.                                                              *)
(***************************************************************************)
OtherScheme(body) ==
  /\ body.hasUrl
  /\ body.isString
  /\ URLParses(body.url)
  /\ body.url.scheme \notin {"http", "https"}

C8_SchemeRestriction ==
  \A r \in Posts :
    (post[r].pc # "idle" /\ OtherScheme(post[r].body)) =>
      /\ post[r].pc = "done"
      /\ post[r].res = JsonError(400, "Wrong url format")
      /\ ~ReachedAllocator(post[r])

(***************************************************************************)
(* C9  (as stated) every GET /c that arrives after the 201 response which  *)
(* announced code c for long URL u is answered 301 with Location u.        *)
(***************************************************************************)
AnsweredBefore(g, r) ==
  /\ r \in get[g].after
  /\ CodeIn(post[r].res) = get[g].shortId

C10_NotFound ==
  \A g \in Gets :
    (get[g].pc = "done" /\ get[g].matched = 0) =>
      /\ get[g].thrown = NotFoundError("Short URL not found")
      /\ get[g].res = JsonError(404, "Short URL not found")
      /\ get[g].res.kind # "redirect"
      /\ get[g].res.location = NoStr

\* The table is not empty and the segment asked for is a code no row
\* holds, although the generator can produce it.
C10_Witness ==
  \E g \in Gets :
    /\ get[g].pc = "done"
    /\ get[g].matched = 0
    /\ get[g].error = PostgrestError("PGRST116")
    /\ get[g].shortId \in Codes
    /\ urls # {}
    /\ get[g].res.status = 404

(***************************************************************************)
(* C11  Lookup store error: a lookup the store answers with an error,      *)
(* although a row holds the short code, is answered 404 "Short URL not     *)
(* found" like an absent code; the Resolver calls the store once per       *)
(* request and never again.                                                *)
(***************************************************************************)
C11_LookupError ==
  \A g \in Gets :
    /\ get[g].lookups <= 1
    /\ get[g].pc = "done" => get[g].lookups = 1
    /\ (get[g].pc = "done" /\ get[g].error # NoError) =>
         /\ get[g].thrown = NotFoundError("Short URL not found")
         /\ get[g].res = JsonError(404, "Short URL not found")

\* The code is stored, the lookup failed, the answer is 404.
C11_Witness ==
  \E g \in Gets :
    /\ get[g].pc = "done"
    /\ get[g].matched = 1
    /\ get[g].error # NoError
    /\ get[g].lookups = 1
    /\ get[g].res.status = 404

(***************************************************************************)
(* C12  Record lifecycle: a request that ended in success made exactly one *)
(* successful insert and owns one row; a request that ended rejected,      *)
(* exhausted or on a store error made none; the table holds as many rows   *)
(* as successful insert calls were made.                                   *)
(***************************************************************************)
NumOk(r) ==
  Cardinality({i \in 1..Len(post[r].calls) : post[r].calls[i] = NoError})

RECURSIVE SumOk(_)
SumOk(S) ==
  IF S = {} THEN 0
  ELSE LET r == CHOOSE x \in S : TRUE IN NumOk(r) + SumOk(S \ {r})

C12_RecordLifecycle ==
  /\ \A r \in Posts :
       /\ (post[r].pc = "done" /\ post[r].res.status = 201) =>
            /\ NumOk(r) = 1
            /\ Cardinality({row \in urls : row.id = post[r].rowId}) = 1
       /\ (post[r].pc = "done" /\ post[r].res.status # 201) =>
            /\ NumOk(r) = 0
            /\ post[r].rowId = 0
       /\ post[r].pc # "done" => NumOk(r) = 0
  /\ Cardinality(urls) = SumOk(Posts)
  /\ \A r, q \in Posts : (r # q /\ post[r].rowId # 0) => post[r].rowId # post[q].rowId

\* One request stored its row, the other exhausted its attempts on it.
C12_Witness ==
  \E r, q \in Posts :
    /\ post[r].res.status = 201
    /\ post[q].pc = "done"
    /\ Len(post[q].calls) = maxRetries
    /\ post[q].res.status = 500
    /\ Cardinality(urls) = 1

(***************************************************************************)
(* C13  Immutability and frame: every step keeps every row of the table as *)
(* it is (the table only grows); an insert answered with a uniqueness      *)
(* violation and every step of the Resolver leave the table unchanged.     *)
(***************************************************************************)
Collides(r) ==
  /\ Len(post'[r].calls) = Len(post[r].calls) + 1
  /\ IsCollision(post'[r].calls[Len(post'[r].calls)])

C13_Immutability ==
  [][ /\ \A row \in urls : row \in urls'
      /\ get' # get => urls' = urls
      /\ \A r \in Posts : Collides(r) => urls' = urls ]_vars

\* A request collided with the row of another request for a different long
\* URL, a lookup ran, and the row still carries its owner's long URL.
C13_Witness ==
  \E r, q \in Posts :
    /\ r # q
    /\ post[r].calls # <<>>
    /\ IsCollision(post[r].calls[1])
    /\ post[q].rowId # 0
    /\ post[r].url # post[q].url
    /\ RowOf(q).long_url = post[q].url
    /\ \E g \in Gets : get[g].pc = "done"

(***************************************************************************)
(* C14  Response/record correspondence: a 201 response is sent only after  *)
(* an insert of the request succeeded; its shortUrl is the base, "/" and   *)
(* exactly the short_code of the inserted row, whose long_url is the url   *)
(* of the request; every successful insert has the 201 response of its     *)
(* request in the same step, so no row is without a success response.      *)
(***************************************************************************)
Base(e) == <<"http://localhost:", PORT(e)>>

C14_Correspondence ==
  /\ \A r \in Posts :
       /\ post[r].res.status = 201 =>
            /\ post[r].calls # <<>>
            /\ post[r].calls[Len(post[r].calls)] = NoError
            /\ \E row \in urls : row.id = post[r].rowId
            /\ post[r].res.shortUrl = Base(env) \o <<"/">> \o RowOf(r).short_code
            /\ RowOf(r).long_url = post[r].body.url
       /\ NumOk(r) > 0 => post[r].pc = "done" /\ post[r].res.status = 201
  /\ \A row \in urls :
       \E r \in Posts : post[r].rowId = row.id /\ post[r].res.status = 201

\* Both requests were answered 201 on a non-default port, one of them after
\* a collision, each with the code of its own row.
C14_Witness ==
  /\ env = "8080"
  /\ \A r \in Posts : post[r].res.status = 201 /\ CodeIn(post[r].res) = RowOf(r).short_code
  /\ \E r \in Posts : Len(post[r].calls) > 1
  /\ \E r, q \in Posts : post[r].body.url # post[q].body.url

(***************************************************************************)
(* C15  Non-idempotence: two requests answered 201 for the same long URL   *)
(* have two distinct rows with different short_code values and different   *)
(* codes in their responses; there are as many rows with a long URL as     *)
(* there are requests answered 201 for it.                                 *)
(***************************************************************************)
SameUrl201(r, q) ==
  /\ r # q
  /\ post[r].res.status = 201
  /\ post[q].res.status = 201
  /\ post[r].url = post[q].url

C15_NonIdempotence ==
  /\ \A r, q \in Posts :
       SameUrl201(r, q) =>
         /\ RowOf(r) # RowOf(q)
         /\ RowOf(r).short_code # RowOf(q).short_code
         /\ CodeIn(post[r].res) # CodeIn(post[q].res)
  /\ \A r \in Posts :
       post[r].res.status = 201 =>
         Cardinality({row \in urls : row.long_url = post[r].url})
           = Cardinality({q \in Posts : post[q].res.status = 201 /\ post[q].url = post[r].url})

\* Two requests for the same long URL were answered 201, the later one after
\* its first candidate had collided with the row of the other.
C15_Witness ==
  \E r, q \in Posts :
    /\ SameUrl201(r, q)
    /\ Len(post[q].calls) > 1
    /\ IsCollision(post[q].calls[1])
    /\ Cardinality(urls) = 2

(***************************************************************************)
(* C16  Format invariant: generateShortId(L) returns, for every length     *)
(* L >= 0, exactly L characters of the alphabet a-z0-9, every random index *)
(* lying in 0..35; every candidate of the Allocator, every stored          *)
(* short_code and every code of a 201 response has exactly 8 characters of *)
(* that alphabet.                                                          *)
(***************************************************************************)
Alphanumerics ==
  {"a", "b", "c", "d", "e", "f", "g", "h", "i", "j", "k", "l", "m",
   "n", "o", "p", "q", "r", "s", "t", "u", "v", "w", "x", "y", "z",
   "0", "1", "2", "3", "4", "5", "6", "7", "8", "9"}

\* ^[a-z0-9]*$ with exactly n characters
IsCode(c, n) == Len(c) = n /\ \A i \in 1..Len(c) : c[i] \in Alphanumerics

C16_Format ==
  /\ gen.pc = "returned" =>
       /\ IsCode(gen.result, gen.length)
       /\ \A i \in 1..gen.length :
            RandomIndex(gen.rnd[i], Len(chars)) \in 0..(Cardinality(Alphanumerics) - 1)
  /\ \A r \in Posts :
       /\ post[r].shortId # <<>> => IsCode(post[r].shortId, MinShortCodeLen)
       /\ post[r].res.status = 201 => IsCode(CodeIn(post[r].res), MinShortCodeLen)
  /\ \A row \in urls : IsCode(row.short_code, MinShortCodeLen)

\* A call with the greatest length returned, its draws mixing the least and
\* the greatest value of Math.random().
C16_Witness ==
  /\ gen.pc = "returned"
  /\ gen.length = MaxGenLen
  /\ \E i, j \in 1..gen.length : gen.rnd[i] = 0 /\ gen.rnd[j] = RandDenom - 1

(***************************************************************************)
(* C17  Request lifecycle: with a store that answers each call, every      *)
(* POST /api/url request that was received ends; an ended request is in    *)
(* exactly one of Rejected, Succeeded, Failed and has one response; once   *)
(* ended, nothing of the request changes any more (no further insert, no   *)
(* further response).                                                      *)
(***************************************************************************)
Rejected(p) == p.res.status = 400 /\ p.thrown # NoError /\ ~ReachedAllocator(p)
Succeeded(p) == p.res.status = 201 /\ p.thrown = NoError /\ p.rowId # 0
Failed(p) == p.res.status = 500 /\ p.thrown # NoError /\ p.rowId = 0 /\ ReachedAllocator(p)

Terminal(p) ==
  /\ p.res # NoResponse
  /\ Rejected(p) \/ Succeeded(p) \/ Failed(p)
  /\ ~(Rejected(p) /\ Succeeded(p))
  /\ ~(Rejected(p) /\ Failed(p))
  /\ ~(Succeeded(p) /\ Failed(p))

C17_Lifecycle ==
  /\ \A r \in Posts : (post[r].pc # "idle") ~> (post[r].pc = "done")
  /\ [](\A r \in Posts :
          /\ post[r].pc = "done" => Terminal(post[r])
          /\ post[r].pc # "done" => post[r].res = NoResponse)
  /\ [][\A r \in Posts : post[r].pc = "done" => post'[r] = post[r]]_vars

\* One request was rejected; the other failed on a store error.
C17_Witness ==
  \E r, q \in Posts :
    /\ post[r].pc = "done" /\ Rejected(post[r])
    /\ post[q].pc = "done" /\ Failed(post[q]) /\ Len(post[q].calls) = 1

(***************************************************************************)
(* C18  Bounded retries: whatever the store answers and whatever the       *)
(* candidates, a request issues at most 10 insert calls; a request whose   *)
(* 10th attempt has been answered has ended and issues none.               *)
(***************************************************************************)
Issued(p) == Len(p.calls) + (IF p.pc = "awaitInsert" THEN 1 ELSE 0)

C18_BoundedRetries ==
  \A r \in Posts :
    /\ Issued(post[r]) <= 10
    /\ post[r].retries <= 10
    /\ Len(post[r].calls) = 10 => post[r].pc = "done"

\* The 10th insert of a request was issued and answered with a collision,
\* as the nine before it.
C18_Witness ==
  \E r \in Posts :
    /\ Issued(post[r]) = 10
    /\ post[r].pc = "done"
    /\ post[r].retries = 10
    /\ \A i \in 1..10 : IsCollision(post[r].calls[i])

(***************************************************************************)
(* C19  Validation acceptance boundary: a request whose url is a valid     *)
(* http:// or https:// URL of at most 2048 characters, 2048 included,      *)
(* passes validation and enters the Allocator; one of the same form with   *)
(* 2049 characters is answered 400 and does not.                           *)
(***************************************************************************)
IsHttpUrl(body) ==
  /\ body.hasUrl
  /\ body.isString
  /\ body.url.scheme \in {"http", "https"}
  /\ body.url.slashes
  /\ URLParses(body.url)

C19_AcceptanceBoundary ==
  \A r \in Posts :
    (post[r].pc # "idle" /\ IsHttpUrl(post[r].body)) =>
      /\ StrLen(post[r].body.url) <= 2048 =>
           /\ ReachedAllocator(post[r])
           /\ post[r].res.status # 400
      /\ StrLen(post[r].body.url) = 2049 =>
           /\ ~ReachedAllocator(post[r])
           /\ post[r].res.status = 400

\* A URL of exactly 2048 characters was stored and answered 201; the same
\* URL with one character more was answered 400.
C19_Witness ==
  \E r, q \in Posts :
    /\ IsHttpUrl(post[r].body) /\ StrLen(post[r].body.url) = 2048
    /\ post[r].res.status = 201
    /\ RowOf(r).long_url = post[r].body.url
    /\ IsHttpUrl(post[q].body) /\ StrLen(post[q].body.url) = 2049
    /\ post[q].res.status = 400

(***************************************************************************)
(* C20  As the feature document states it: a request one of whose          *)
(* candidates already existed in the store ends with the system exception  *)
(* and the message "An unexpected error occurred, please try again".       *)
(***************************************************************************)
HadCollision(r) == \E i \in 1..Len(post[r].calls) : IsCollision(post[r].calls[i])

ApiErrorClasses == {"ApiError", "BadRequestError", "NotFoundError"}

Translated(x) ==
  x.thrown # NoError =>
    /\ x.pc = "done"
    /\ x.res.kind = "error"
    /\ x.thrown.cls \in ApiErrorClasses =>
         x.res.status = x.thrown.statusCode /\ x.res.error = x.thrown.message
    /\ x.thrown.cls = "BadRequestError" => x.res.status = 400
    /\ x.thrown.cls = "NotFoundError" => x.res.status = 404
    /\ x.thrown.cls \notin ApiErrorClasses =>
         x.res.status = 500 /\ x.res.error = "Internal Server Error"

C21_ErrorTranslation ==
  /\ \A r \in Posts : Translated(post[r])
  /\ \A g \in Gets : Translated(get[g])
  /\ \A r \in Posts : post[r].res.kind = "error" => post[r].thrown # NoError
  /\ \A g \in Gets : get[g].res.kind = "error" => get[g].thrown # NoError

\* A BadRequestError, a store's error object and a NotFoundError were thrown
\* and answered.
C21_Witness ==
  /\ \E r \in Posts : post[r].thrown.cls = "BadRequestError" /\ post[r].res.status = 400
  /\ \E r \in Posts : post[r].thrown.cls = "PostgrestError" /\ post[r].res.status = 500
  /\ \E g \in Gets : get[g].thrown.cls = "NotFoundError" /\ get[g].res.status = 404

(***************************************************************************)
(* C22  Concurrent same-candidate race: of two inserts of one candidate in *)
(* flight at the same time exactly one succeeds; the other is answered     *)
(* with a uniqueness violation (unless the store reports a failure of its  *)
(* own or of the row's check) and its request goes on with a new           *)
(* candidate; a request is never held back by another one's insert, and no *)
(* step of a shortening request is a lookup.                               *)
(***************************************************************************)
\* Request r's insert succeeded while call k of request q was in flight for
\* the same candidate.
WonRace(r, q, k) == <<q, k>> \in post[r].rivals

Answers(r) == Len(post'[r].calls) - Len(post[r].calls)

C23_Sequential ==
  /\ [](\A r \in Posts :
          /\ Issued(post[r]) - Len(post[r].calls) \in {0, 1}
          /\ post[r].pc = "awaitInsert" =>
               /\ post[r].retries = Len(post[r].calls)
               /\ \A i \in 1..Len(post[r].calls) : IsCollision(post[r].calls[i]))
  /\ [][\A r \in Posts :
          post'[r] # post[r] =>
            /\ post[r].pc = "idle" => Answers(r) = 0
            /\ post[r].pc = "awaitInsert" => Answers(r) = 1
            /\ (post[r].pc = "awaitInsert" /\ post'[r].pc = "awaitInsert") =>
                 /\ IsCollision(post'[r].calls[Len(post'[r].calls)])
                 /\ post'[r].retries = post[r].retries + 1
            /\ post'[r].shortId # post[r].shortId =>
                 \/ post[r].pc = "idle"
                 \/ IsCollision(post'[r].calls[Len(post'[r].calls)])]_vars

\* The third candidate of a request is in flight, the two before it having
\* collided, and it is a code no row holds.
C23_Witness ==
  \E r \in Posts :
    /\ post[r].pc = "awaitInsert"
    /\ Len(post[r].calls) = 2
    /\ post[r].retries = 2
    /\ \E row \in urls : row.short_code # post[r].shortId

(***************************************************************************)
(* C24  Retry only on a short_code collision: an insert answered with a    *)
(* uniqueness violation of another constraint of the table (the primary    *)
(* key) is the request's last insert; the error is thrown and the attempt  *)
(* counter is not advanced.                                                *)
(***************************************************************************)
C24_RetryOnlyOnShortCode ==
  \A r \in Posts : \A i \in 1..Len(post[r].calls) :
    post[r].calls[i] = PkeyViolation =>
      /\ Len(post[r].calls) = i
      /\ post[r].pc = "done"
      /\ post[r].thrown = PkeyViolation
      /\ post[r].retries = i - 1

(***************************************************************************)
(* C25  Request isolation: a request's attempt counter counts its own      *)
(* collisions only and it is exhausted only by 10 collisions of its own;   *)
(* two requests with the same body, the same candidate and the same store  *)
(* answers are in the same state of the handler, whatever the other        *)
(* requests did; a step of one request changes nothing of another.         *)
(***************************************************************************)
OwnCollisions(r) ==
  Cardinality({i \in 1..Len(post[r].calls) : IsCollision(post[r].calls[i])})

\* What the handler itself holds for a request.
HandlerState(p) == <<p.pc, p.url, p.retries, p.shortId, p.thrown, p.res>>

C25_Isolation ==
  /\ [](\A r \in Posts :
          /\ post[r].retries = OwnCollisions(r)
          /\ post[r].res.error = ExhaustedBody => OwnCollisions(r) = 10
          /\ (post[r].pc = "done" /\ OwnCollisions(r) < 10 /\ post[r].calls # <<>>) =>
               ~IsCollision(post[r].calls[Len(post[r].calls)])
          /\ \A q \in Posts :
               (/\ post[r].pc # "idle" /\ post[q].pc # "idle"
                /\ post[r].body = post[q].body
                /\ post[r].calls = post[q].calls
                /\ post[r].shortId = post[q].shortId) =>
                  HandlerState(post[r]) = HandlerState(post[q]))
  /\ [][\A r \in Posts :
          post'[r] # post[r] => \A q \in Posts \ {r} : post'[q] = post[q]]_vars

\* Both requests collided; one was exhausted by 10 collisions of its own
\* while the other, after some of its own, was stored.
C25_Witness ==
  \E r, q \in Posts :
    /\ post[r].res.error = ExhaustedBody
    /\ OwnCollisions(r) = 10
    /\ OwnCollisions(q) > 1
    /\ post[q].res.status = 201

(***************************************************************************)
(* C26  Exact-match lookup: a GET is answered with a redirect only to the  *)
(* long_url of the row whose short_code is exactly the segment asked for;  *)
(* a segment that differs from a stored short_code in letter case only and *)
(* is itself no stored short_code is answered 404.                         *)
(***************************************************************************)
\* A row stored before the GET arrived holds the segment's letters in
\* another case.
CaseVariantStored(g) ==
  \E r \in get[g].after :
    /\ RowOf(r).short_code # get[g].shortId
    /\ ToLowerCase(RowOf(r).short_code) = ToLowerCase(get[g].shortId)

C26_ExactMatch ==
  \A g \in Gets :
    (get[g].pc = "done" /\ get[g].shortId # <<>>) =>
      /\ get[g].res.kind = "redirect" =>
           \E row \in urls : /\ row.short_code = get[g].shortId
                             /\ get[g].res.location = row.long_url
      /\ (\A row \in urls : row.short_code # get[g].shortId) =>
           get[g].res = JsonError(404, "Short URL not found")
      /\ (CaseVariantStored(g) /\ get[g].matched = 0) =>
           /\ get[g].data = NoData
           /\ get[g].res = JsonError(404, "Short URL not found")

\* The code of a stored row was asked for in upper case, and the store
\* itself answered that no row matches.
C26_Witness ==
  \E g \in Gets :
    /\ get[g].pc = "done"
    /\ CaseVariantStored(g)
    /\ get[g].shortId \notin Codes
    /\ get[g].error = PostgrestError("PGRST116")
    /\ get[g].res.status = 404

(***************************************************************************)
(* C27  Route precedence: GET /health is answered 200 {"status":"ok"} by   *)
(* the health check at once, whatever the table holds, with no store call; *)
(* it is never a short-code lookup and never answered 404 or a redirect.   *)
(***************************************************************************)
C27_RoutePrecedence ==
  \A g \in Gets :
    (get[g].pc # "idle" /\ get[g].segment = HealthPath) =>
      /\ get[g].pc = "done"
      /\ get[g].res.status = 200
      /\ get[g].res.kind = "status"
      /\ get[g].res.appStatus = "ok"
      /\ get[g].lookups = 0
      /\ get[g].shortId = <<>>
      /\ get[g].thrown = NoError
      /\ get[g].res.location = NoStr

\* GET /health was answered while the table held two rows.
C27_Witness ==
  \E g \in Gets :
    /\ get[g].segment = HealthPath
    /\ get[g].res.status = 200
    /\ Cardinality(get[g].after) = 2
    /\ Cardinality(urls) = 2

(***************************************************************************)
(* C28  The base address of the shortUrl of every 201 response names the   *)
(* port the server listens on, whatever the PORT environment variable is.  *)
(***************************************************************************)
C28_BaseNamesListenPort ==
  \A r \in Posts :
    post[r].res.status = 201 =>
      SubSeq(post[r].res.shortUrl, 1, 3)
        = <<"http://localhost:", ToString(ListenPort), "/">>

(***************************************************************************)
(* C29  Earlier revision: a store error that is no uniqueness violation is *)
(* caught, never thrown out of the handler; it is counted toward the 10    *)
(* attempts and the insert is tried again, unless it was the 10th attempt. *)
(***************************************************************************)
C29_LegacyCatchesAll ==
  \A r \in Posts :
    /\ Len(post[r].calls) <= 10
    /\ post[r].pc = "awaitInsert" => post[r].retries = Len(post[r].calls)
    /\ \A i \in 1..Len(post[r].calls) :
         IsOtherStoreError(post[r].calls[i]) =>
           /\ post[r].thrown # post[r].calls[i]
           /\ post[r].res.error # "Internal Server Error"
           /\ post[r].retries >= i - 1
           /\ i < 10 =>
                \/ Len(post[r].calls) > i
                \/ post[r].pc = "awaitInsert" /\ post[r].retries = i
           /\ i = 10 =>
                /\ post[r].pc = "done"
                /\ post[r].thrown = ApiError(ExhaustedBody, 500)

\* The store failed on a request's first insert; the request tried again
\* and its second insert stored the row.
C29_Witness ==
  \E r \in Posts :
    /\ Len(post[r].calls) = 2
    /\ post[r].calls[1] = PostgrestError("")
    /\ post[r].calls[2] = NoError
    /\ post[r].res.status = 201
    /\ post[r].retries = 1

(***************************************************************************)
(* C30  Earlier revision: a request whose inserts all report a uniqueness  *)
(* violation ends after 10 attempts with the error "An unexpected error    *)
(* occurred, please try again" (500) raised; the handler never ends        *)
(* without a response sent or an error raised.                             *)
(***************************************************************************)
C30_LegacyExhaustion ==
  \A r \in Posts :
    /\ (AllCollided(r) /\ Len(post[r].calls) = 10) =>
         /\ post[r].pc = "done"
         /\ post[r].thrown = ApiError(ExhaustedBody, 500)
    /\ post[r].pc = "done" =>
         post[r].res # NoResponse \/ post[r].thrown # NoError

\* C31: in the in-memory prototype, GET /:shortId for an id that no
\* shortening request has stored in urlDatabase answers 404 "Short URL not
\* found" and never a redirect, whatever the path segment, names a plain
\* object inherits ("constructor", "toString") included.
C31_UnstoredIsNotFound ==
  \A g \in Gets :
    (get[g].pc = "done" /\ get[g].matched = 0) =>
      /\ get[g].res = JsonError(404, "Short URL not found")
      /\ get[g].res.kind # "redirect"

====
